---- MODULE Spec2Model ----
(***************************************************************************)
(* The certificate issuance pipeline of CertificatesService:               *)
(* createBasicCertificate, uploadToPinata, sendToAvalanche,                *)
(* generateQRCode and the composite createCompleteCertificate, run by      *)
(* concurrent callers against the certificates table.  A call is a         *)
(* sequence of steps; a step ends at a read or a write of the certificates *)
(* table or at the mint request, so that calls interleave wherever they     *)
(* can see or change each other's rows.  Every external call (table,       *)
(* content store, gateway, ledger, QR encoder) may fail.                   *)
(***************************************************************************)
EXTENDS Integers, Sequences, FiniteSets, TLC

\* ---------------------------------------------------------------- bounds
\* how many operations (createBasicCertificate, uploadToPinata,
\* sendToAvalanche, generateQRCode) are started in all, alone or inside
\* createCompleteCertificate
MaxOps == 4
\* how many readings the clock has
MaxTime == 2
\* how many rows the table holds when only the read operations run
MaxRows == 2

\* ---------------------------------------------------------------- values
Procs == {"p1", "p2"}
ProcOrder == [p \in Procs |-> IF p = "p1" THEN 1 ELSE 2]
CertIds == 1..MaxOps
\* an id no row ever has
NoSuchId == MaxOps + 1

Null == "null"
NullUrl == <<>>

\* CreateCertificateDto, as the request body gives it: each of the four
\* fields is not there, the empty string, or a value
Undefined == "undefined"
DtoFields == {"course_name", "recipient_name", "institute_id", "issued_at"}
FilledDto == [f \in DtoFields |-> "a value"]
CreateCertificateDtos ==
    {FilledDto} \cup {[FilledDto EXCEPT ![f] = v] : f \in DtoFields, v \in {Undefined, ""}}
\* the createDto of an operation that takes none
NoDto == [f \in DtoFields |-> Undefined]

\* what the content store can answer: the cid of the image, the cid of the
\* metadata built around that image, the cid of a QR image
CIDs == {"QmA", "QmB"}
MetadataCid(imageCid) == IF imageCid = "QmA" THEN "QmMetaA" ELSE "QmMetaB"
QRCIDs == {"QmQR"}

\* what the ledger service can answer
Absent == "absent"
AvalancheHashes == {"0xA"}
ArbitrumHashes == {"0xB"}
FlatAliases == <<"transaction_hash", "hash", "txHash", "tx_hash", "transactionHash">>
NoFlat == <<Null, Null, Null, Null, Null>>
\* no top-level hash, one under one of the aliases, or two different ones
FlatShapes == {NoFlat} \cup {[NoFlat EXCEPT ![i] = "0xF"] : i \in DOMAIN FlatAliases}
              \cup {[NoFlat EXCEPT ![2] = "0xG", ![4] = "0xF"]}
\* result.data.avalanche.data and result.data.arbitrum.data: no such object
\* (Absent), an object without transaction_hash (Null), or one with it; and
\* the top-level fields of the aliases
MintResponses == [avalanche : {Absent, Null} \cup AvalancheHashes,
                  arbitrum : {Absent, Null} \cup ArbitrumHashes,
                  flat : FlatShapes]
\* the non-success answers of the mint endpoint: status and body
ErrorAnswers == {<<400, "bad request">>, <<500, "ledger down">>}
\* what the two fetches of the pre-mint validation can find: the metadata
\* URL, then (only after a good metadata answer) the image URL
MetadataFetches == {"network error", "not ok", "invalid json", "no image",
                    "image not a string", "ok"}
ImageFetches == {"network error", "not ok", "not an image", "ok"}
PreMintFetches == {<<m, "not fetched">> : m \in MetadataFetches \ {"ok"}}
                  \cup {<<"ok", i>> : i \in ImageFetches}
\* what the mint request can end with: no answer, a non-success answer, a
\* success answer whose body is not JSON, a success answer
NoMintResponse == [avalanche |-> Absent, arbitrum |-> Absent, flat |-> NoFlat]
MintAnswers ==
    {[fetched |-> f, status |-> 0, body |-> "", result |-> NoMintResponse] :
        f \in {"network error", "invalid json"}}
    \cup {[fetched |-> "not ok", status |-> a[1], body |-> a[2],
           result |-> NoMintResponse] : a \in ErrorAnswers}
    \cup {[fetched |-> "ok", status |-> 200, body |-> "", result |-> r] :
           r \in MintResponses}
StudentLookups == {"one", "none", "several", "error"}
\* what the reads of sendToAvalanche can find: the certificate, then the
\* institution, then the user; a read that fails ends the call, and the
\* reads after it are not made
AvalancheReads == {<<FALSE, FALSE, "not read">>, <<TRUE, FALSE, "not read">>}
                  \cup {<<TRUE, TRUE, s>> : s \in StudentLookups}
\* what the two uploads of uploadToPinata can end with
Uploads == {<<FALSE, FALSE>>, <<TRUE, FALSE>>, <<TRUE, TRUE>>}
DefaultGateway == "https://gateway.pinata.cloud"
\* PINATA_GATEWAY_URL: not set, or set
GatewayConfigs == {Null, "https://gw.example"}

VARIABLES certs, known, call, ret, budget, config,
          institutions, users, outbox, pool

vars == <<certs, known, call, ret, budget, config,
          institutions, users, outbox, pool>>

\* the tables of institutions and users, the mail that has been sent, and
\* whether DatabaseService has a pool
accounts == <<institutions, users, outbox, pool>>

\* no institution, no user, no mail, and a database that is connected
AccountsAtRest ==
    /\ institutions = <<>>
    /\ users = <<>>
    /\ outbox = {}
    /\ pool = TRUE

\* ------------------------------------------------------------ the table
\* a variant of the new row that has hashes already
CertificatePrefilled == [image_hash |-> "QmA", metadata_hash |-> "QmMetaA",
                         transaction_hash |-> Null, arbitrum_hash |-> Null,
                         qr_url |-> NullUrl]

\* A row of the certificates table right after the insert of
\* createBasicCertificate: no progress field is populated.
Certificate == [image_hash |-> Null, metadata_hash |-> Null,
                transaction_hash |-> Null, arbitrum_hash |-> Null,
                qr_url |-> NullUrl]

Exists(id) == id \in DOMAIN certs

\* this.configService.get('PINATA_GATEWAY_URL') || 'https://gateway.pinata.cloud'
gatewayUrl == IF config = Null THEN DefaultGateway ELSE config

IpfsUrl(cid) == <<gatewayUrl, "/ipfs/", cid>>

\* ------------------------------------------------------------ the calls
NoError == [kind |-> "none", status |-> 0, body |-> ""]
Err(kind) == [kind |-> kind, status |-> 0, body |-> ""]

\* What went wrong outside the service during a call, the first time it did:
\* which request, how it ended, and for an HTTP answer its status and body.
NoFault == [at |-> "none", why |-> "", status |-> 0, body |-> ""]

NoStatus == [uploaded_to_pinata |-> FALSE, sent_to_avalanche |-> FALSE,
             qr_generated |-> FALSE, basic_created |-> FALSE]

\* what validateCertificate returns
NoValidation == [valid |-> FALSE, error |-> NoError, pinata_check |-> FALSE,
                 avalanche_check |-> FALSE, arbitrum_check |-> FALSE,
                 image_url |-> NullUrl, metadata_url |-> NullUrl,
                 verified_at |-> 0]

NoResult == [success |-> FALSE, certificate_id |-> 0, error |-> NoError,
             current_step |-> "", certificate |-> Certificate,
             image_hash |-> Null, metadata_hash |-> Null,
             qr_url |-> NullUrl, transaction_hash |-> Null,
             current_status |-> NoStatus,
             image_url |-> NullUrl, metadata_url |-> NullUrl,
             validation |-> NoValidation]

NewCall(op, id) ==
    [op |-> op, pc |-> "start", cert |-> id, current_step |-> "",
     createDto |-> NoDto,
     imageCid |-> Null, metadataCid |-> Null,
     sentImage |-> Null, sentMetadata |-> Null,
     studentData |-> Null,
     transactionHash |-> Null, arbitrumHash |-> Null, qrUrl |-> NullUrl,
     uploadSent |-> FALSE,
     gatewayFetched |-> FALSE, mintSent |-> FALSE, qrRequested |-> FALSE,
     wrote |-> {},
     fault |-> NoFault,
     outcome |-> "pending", error |-> NoError, result |-> NoResult]

IdleCall == [NewCall("none", 0) EXCEPT !.pc = "done", !.outcome = "idle"]

\* The locals of a call end with it: what stays to be observed is the
\* outcome, the error or the result, and what the call did.
Ended(c) == [c EXCEPT !.pc = "done", !.imageCid = Null, !.metadataCid = Null,
                      !.sentImage = Null, !.sentMetadata = Null,
                      !.studentData = Null,
                      !.transactionHash = Null, !.arbitrumHash = Null,
                      !.qrUrl = NullUrl]

MetAnswer(c, at, why, status, body) ==
    IF c.fault = NoFault
    THEN [c EXCEPT !.fault = [at |-> at, why |-> why, status |-> status, body |-> body]]
    ELSE c

Met(c, at, why) == MetAnswer(c, at, why, 0, "")

Throw(c, err) == [Ended(c) EXCEPT !.outcome = "thrown", !.error = err]

Return(c, res) == [Ended(c) EXCEPT !.outcome = "returned", !.result = res]


\* A new call takes the first free caller (callers differ only in name).
FirstFree(p) == call[p].outcome = "idle"
                /\ \A q \in Procs : call[q].outcome = "idle" => q = p \/ ProcOrder[p] < ProcOrder[q]

CanBegin(p) == FirstFree(p)

\* the start of an operation, alone or inside createCompleteCertificate
StartOp == budget > 0 /\ budget' = budget - 1

\* The ids a caller can pass to a stage operation: the ids some call has
\* returned to its caller, or an id that names no row.
Targets == known \cup {NoSuchId}

Init ==
    /\ certs = <<>>
    /\ known = {}
    /\ call = [p \in Procs |-> IdleCall]
    /\ ret = IdleCall
    /\ budget = MaxOps
    /\ config \in GatewayConfigs
    /\ AccountsAtRest

\* ------------------------------------------------- createBasicCertificate
\* randomUUID() and the insert: the table rejects an id it already holds.
\* a variant whose insert carries the hash of an image
InsertCertificateWithImage(id, dbOk) ==
    IF dbOk /\ ~Exists(id)
    THEN certs @@ (id :> [Certificate EXCEPT !.image_hash = "QmA"])
    ELSE certs

InsertCertificate(id, dbOk) ==
    IF dbOk /\ ~Exists(id) THEN certs @@ (id :> Certificate) ELSE certs

\* randomUUID(): up to the naming of ids, an id in use or the next unused one
NewIds == {i \in CertIds : i <= Cardinality(DOMAIN certs) + 1}

\* ----------------------------------------------------- shared by the steps
\* A step of call p ends with call record c.  A call that has returned or
\* thrown is shown in ret in the state its last step leads to, and p is
\* free again; createBasicCertificate and createCompleteCertificate hand
\* the certificate id to their caller when they return.
Step(p, c) ==
    /\ call' = [call EXCEPT ![p] = IF c.outcome = "pending" THEN c ELSE IdleCall]
    /\ ret' = IF c.outcome = "pending" THEN IdleCall ELSE c
    /\ known' = IF c.outcome = "returned" /\ c.op \in {"createBasic", "complete"}
                THEN known \cup {c.cert} ELSE known
    /\ UNCHANGED accounts

Begin(p, c) ==
    /\ CanBegin(p)
    /\ Step(p, c)

createBasicCertificate(p, createDto, id, dbOk) ==
    /\ Begin(p, IF dbOk /\ ~Exists(id)
                THEN Return([NewCall("createBasic", id) EXCEPT !.createDto = createDto],
                            [NoResult EXCEPT !.success = TRUE, !.certificate_id = id,
                                             !.certificate = Certificate])
                ELSE Throw(Met([NewCall("createBasic", id) EXCEPT !.createDto = createDto],
                               "insert", "error"),
                           Err("Database")))
    /\ certs' = InsertCertificate(id, dbOk)
    /\ StartOp
    /\ UNCHANGED config

At(p, pc) == call[p].outcome = "pending" /\ call[p].pc = pc

\* A stage operation rethrows; inside createCompleteCertificate the throw
\* lands in the inner catch, which goes on to read the status.
StageFail(c, err) ==
    IF c.op = "complete"
    THEN [Ended(c) EXCEPT !.pc = "c_status", !.error = err]
    ELSE Throw(c, err)

\* getCertificateById: NotFoundException on a table error or on no row.
Found(id, dbOk) == dbOk /\ Exists(id)

MetRead(c, at) == Met(c, at, IF Exists(c.cert) THEN "error" ELSE "no row")

\* a variant of the update without the filter on the id
UpdateRowWithoutFilter(id, row) == [b \in DOMAIN certs |-> row]

\* An update ... .eq('id', id) changes the rows with that id, if any.
UpdateRow(id, row) == IF Exists(id) THEN [certs EXCEPT ![id] = row] ELSE certs

\* ------------------------------------------------------------ uploadToPinata
\* a variant that writes a fresh row around the two hashes
updateCertificateHashesFreshRow(id, imageHash, metadataHash) ==
    UpdateRow(id, [Certificate EXCEPT !.image_hash = imageHash,
                                      !.metadata_hash = metadataHash])

updateCertificateHashes(id, imageHash, metadataHash) ==
    UpdateRow(id, [certs[id] EXCEPT !.image_hash = imageHash,
                                    !.metadata_hash = metadataHash])

\* getCertificateById (the institution name is read without a check)
UploadRead(c, dbOk) ==
    IF Found(c.cert, dbOk)
    THEN [c EXCEPT !.pc = "up_upload"]
    ELSE StageFail(MetRead(c, "certificate read"), Err("NotFound"))

\* uploadFile of the image, then uploadJSON of the metadata around its URL
Uploaded(c, imageOk, metadataOk, cid) ==
    IF ~imageOk THEN StageFail(Met(c, "image upload", "error"), Err("Upload"))
    ELSE IF ~metadataOk THEN StageFail(Met(c, "metadata upload", "error"), Err("Upload"))
    ELSE [c EXCEPT !.pc = "up_save", !.imageCid = cid,
                   !.metadataCid = MetadataCid(cid)]

UploadDone(c) ==
    IF c.op = "complete"
    THEN [c EXCEPT !.pc = "av_read", !.current_step = "Sending to Avalanche",
                   !.imageCid = Null, !.metadataCid = Null]
    ELSE Return(c, [NoResult EXCEPT !.success = TRUE, !.certificate_id = c.cert,
                                    !.image_hash = c.imageCid,
                                    !.metadata_hash = c.metadataCid])

\* the call of the stage on its own: it starts with the read
uploadToPinata(p, id, dbOk) ==
    /\ id \in Targets
    /\ Begin(p, UploadRead(NewCall("upload", id), dbOk))
    /\ StartOp
    /\ UNCHANGED <<certs, config>>

\* the read of the stage inside createCompleteCertificate
UploadReadStep(p, dbOk) ==
    /\ At(p, "up_read")
    /\ Step(p, UploadRead(call[p], dbOk))
    /\ StartOp
    /\ UNCHANGED <<certs, config>>

UploadFiles(p, imageOk, metadataOk, cid) ==
    /\ At(p, "up_upload")
    /\ Step(p, Uploaded([call[p] EXCEPT !.uploadSent = TRUE], imageOk, metadataOk, cid))
    /\ UNCHANGED <<certs, budget, config>>

\* a variant whose update, when it fails, has written the image hash already
UploadSaveHalfWritten(p, dbOk) ==
    /\ At(p, "up_save")
    /\ LET c == call[p] IN
       IF dbOk
       THEN /\ certs' = updateCertificateHashes(c.cert, c.imageCid, c.metadataCid)
            /\ Step(p, UploadDone([c EXCEPT !.wrote = @ \cup {"image_hash", "metadata_hash"}]))
       ELSE /\ certs' = updateCertificateHashes(c.cert, c.imageCid,
                                                certs[c.cert].metadata_hash)
            /\ Step(p, StageFail(Met(c, "hashes write", "error"), Err("Database")))
    /\ UNCHANGED <<budget, config>>

UploadSave(p, dbOk) ==
    /\ At(p, "up_save")
    /\ LET c == call[p] IN
       IF dbOk
       THEN /\ certs' = updateCertificateHashes(c.cert, c.imageCid, c.metadataCid)
            /\ Step(p, UploadDone([c EXCEPT !.wrote = @ \cup {"image_hash", "metadata_hash"}]))
       ELSE /\ certs' = certs
            /\ Step(p, StageFail(Met(c, "hashes write", "error"), Err("Database")))
    /\ UNCHANGED <<budget, config>>

\* ----------------------------------------------------------- sendToAvalanche
\* a variant that keeps a transaction_hash the row already has
updateTransactionHashOnce(id, transactionHash) ==
    IF Exists(id) /\ certs[id].transaction_hash # Null THEN certs
    ELSE UpdateRow(id, [certs[id] EXCEPT !.transaction_hash = transactionHash])

updateTransactionHash(id, transactionHash) ==
    UpdateRow(id, [certs[id] EXCEPT !.transaction_hash = transactionHash])

updateArbitrumHash(id, arbitrumHash) ==
    UpdateRow(id, [certs[id] EXCEPT !.arbitrum_hash = arbitrumHash])

\* a variant without the check of the hashes
HasHashesUnchecked(row) == TRUE

\* if (!certificate.image_hash || !certificate.metadata_hash) throw
HasHashes(row) == row.image_hash # Null /\ row.metadata_hash # Null

\* a || b || ... over the top-level aliases, in the order of the source
RECURSIVE FirstFlat(_, _)
FirstFlat(flat, i) ==
    IF i > Len(flat) THEN Null
    ELSE IF flat[i] # Null THEN flat[i] ELSE FirstFlat(flat, i + 1)

\* the if / else if / else that picks transactionHash out of the answer
ExtractTransactionHash(result) ==
    IF result.avalanche # Absent THEN result.avalanche
    ELSE IF result.arbitrum # Absent THEN result.arbitrum
    ELSE FirstFlat(result.flat, 1)

\* result.data?.arbitrum?.data?.transaction_hash, when truthy
ExtractArbitrumHash(result) ==
    IF result.arbitrum \in {Absent, Null} THEN Null ELSE result.arbitrum

\* a variant without the placeholder
StudentDataOfUserOnly(lookup) == IF lookup = "one" THEN "user" ELSE Null

\* studentUser && !studentError: .single() gives a row only for one match
StudentData(lookup) == IF lookup = "one" THEN "user" ELSE "placeholder"

\* a variant that looks the institution up before it checks the hashes
AvalancheReadInstitutionFirst(c, dbOk, institutionOk, student) ==
    IF ~Found(c.cert, dbOk)
    THEN StageFail(MetRead(c, "certificate read"), Err("NotFound"))
    ELSE IF ~institutionOk
    THEN StageFail(Met(c, "institution read", "error"), Err("InstitutionNotFound"))
    ELSE IF ~HasHashes(certs[c.cert]) THEN StageFail(c, Err("Precondition"))
    ELSE [c EXCEPT !.pc = "av_validate",
                   !.sentImage = certs[c.cert].image_hash,
                   !.sentMetadata = certs[c.cert].metadata_hash,
                   !.studentData = StudentData(student)]

\* getCertificateById, the check of the hashes, the institution (required)
\* and the user of the recipient's name (not required)
AvalancheRead(c, dbOk, institutionOk, student) ==
    IF ~Found(c.cert, dbOk)
    THEN StageFail(MetRead(c, "certificate read"), Err("NotFound"))
    ELSE IF ~HasHashes(certs[c.cert]) THEN StageFail(c, Err("Precondition"))
    ELSE IF ~institutionOk
    THEN StageFail(Met(c, "institution read", "error"), Err("InstitutionNotFound"))
    ELSE [c EXCEPT !.pc = "av_validate",
                   !.sentImage = certs[c.cert].image_hash,
                   !.sentMetadata = certs[c.cert].metadata_hash,
                   !.studentData = StudentData(student)]

\* a variant that does not look at the answer of the image URL
PreMintValidMetadataOnly(metadata, image) == metadata = "ok"

\* pre-mint validation: the metadata URL must answer with JSON that has an
\* image, and that image URL must answer with an image
PreMintValid(metadata, image) == metadata = "ok" /\ image = "ok"

\* what the two fetches met
Fetched(c, metadata, image) ==
    IF metadata # "ok" THEN Met(c, "metadata fetch", metadata)
    ELSE IF image # "ok" THEN Met(c, "image fetch", image)
    ELSE c

Validated(c, metadata, image) ==
    LET d == [Fetched(c, metadata, image) EXCEPT !.gatewayFetched = TRUE] IN
    IF PreMintValid(metadata, image)
    THEN [d EXCEPT !.pc = "av_mint"]
    ELSE StageFail(d, Err("Validation"))

\* a variant whose error leaves the body out
AvalancheApiErrorStatusOnly(answer) ==
    [kind |-> "AvalancheApi", status |-> answer.status, body |-> ""]

\* `Avalanche API failed: ${response.status} - ${errorText}`
AvalancheApiError(answer) ==
    [kind |-> "AvalancheApi", status |-> answer.status, body |-> answer.body]

\* what the mint request met
Answered(c, answer) ==
    IF answer.fetched # "ok"
    THEN MetAnswer(c, "mint", answer.fetched, answer.status, answer.body)
    ELSE c

\* a variant that sends the request again after a network error
MintedAgainAfterNetworkError(c, answer) ==
    IF answer.fetched = "network error" THEN c
    ELSE IF answer.fetched = "not ok"
    THEN StageFail(Answered(c, answer), AvalancheApiError(answer))
    ELSE IF answer.fetched = "invalid json"
    THEN StageFail(Answered(c, answer), Err("Parse"))
    ELSE IF ExtractTransactionHash(answer.result) = Null
    THEN StageFail(c, Err("NoTransactionHash"))
    ELSE [c EXCEPT !.pc = "av_save", !.studentData = Null,
                   !.transactionHash = ExtractTransactionHash(answer.result),
                   !.arbitrumHash = ExtractArbitrumHash(answer.result)]

\* what the call does with the answer of the mint endpoint
Minted(c, answer) ==
    LET d == Answered(c, answer) IN
    IF answer.fetched = "network error" THEN StageFail(d, Err("Network"))
    ELSE IF answer.fetched = "not ok" THEN StageFail(d, AvalancheApiError(answer))
    ELSE IF answer.fetched = "invalid json" THEN StageFail(d, Err("Parse"))
    ELSE IF ExtractTransactionHash(answer.result) = Null
    THEN StageFail(d, Err("NoTransactionHash"))
    ELSE [d EXCEPT !.pc = "av_save", !.studentData = Null,
                   !.transactionHash = ExtractTransactionHash(answer.result),
                   !.arbitrumHash = ExtractArbitrumHash(answer.result)]

AvalancheDone(c) ==
    IF c.op = "complete"
    THEN [c EXCEPT !.pc = "qr_make", !.current_step = "Generating QR code",
                   !.sentImage = Null, !.sentMetadata = Null,
                   !.transactionHash = Null, !.arbitrumHash = Null]
    ELSE Return(c, [NoResult EXCEPT !.success = TRUE, !.certificate_id = c.cert,
                                    !.transaction_hash = c.transactionHash])

\* after updateTransactionHash: the secondary hash, if the answer had one
TransactionSaved(c) ==
    IF c.arbitrumHash # Null THEN [c EXCEPT !.pc = "av_save_arbitrum"]
    ELSE AvalancheDone(c)

\* await this.updateArbitrumHash(...) is not caught: its error is the stage's
ArbitrumSaved(c, dbOk) ==
    IF dbOk THEN AvalancheDone([c EXCEPT !.wrote = @ \cup {"arbitrum_hash"}])
    ELSE StageFail(Met(c, "arbitrum_hash write", "error"), Err("Database"))

sendToAvalanche(p, id, dbOk, institutionOk, student) ==
    /\ id \in Targets
    /\ Begin(p, AvalancheRead(NewCall("avalanche", id), dbOk, institutionOk, student))
    /\ StartOp
    /\ UNCHANGED <<certs, config>>

AvalancheReadStep(p, dbOk, institutionOk, student) ==
    /\ At(p, "av_read")
    /\ Step(p, AvalancheRead(call[p], dbOk, institutionOk, student))
    /\ StartOp
    /\ UNCHANGED <<certs, config>>

ValidatePreMint(p, metadata, image) ==
    /\ At(p, "av_validate")
    /\ Step(p, Validated(call[p], metadata, image))
    /\ UNCHANGED <<certs, budget, config>>

Mint(p, answer) ==
    /\ At(p, "av_mint")
    /\ Step(p, Minted([call[p] EXCEPT !.mintSent = TRUE], answer))
    /\ UNCHANGED <<certs, budget, config>>

\* a variant that goes on when updateTransactionHash has failed
SaveTransactionHashGoingOn(p, dbOk) ==
    /\ At(p, "av_save")
    /\ LET c == call[p] IN
       IF dbOk
       THEN /\ certs' = updateTransactionHash(c.cert, c.transactionHash)
            /\ Step(p, TransactionSaved([c EXCEPT !.wrote = @ \cup {"transaction_hash"}]))
       ELSE /\ certs' = certs
            /\ Step(p, TransactionSaved(Met(c, "transaction_hash write", "error")))
    /\ UNCHANGED <<budget, config>>

SaveTransactionHash(p, dbOk) ==
    /\ At(p, "av_save")
    /\ LET c == call[p] IN
       IF dbOk
       THEN /\ certs' = updateTransactionHash(c.cert, c.transactionHash)
            /\ Step(p, TransactionSaved([c EXCEPT !.wrote = @ \cup {"transaction_hash"}]))
       ELSE /\ certs' = certs
            /\ Step(p, StageFail(Met(c, "transaction_hash write", "error"),
                                  Err("Database")))
    /\ UNCHANGED <<budget, config>>

SaveArbitrumHash(p, dbOk) ==
    /\ At(p, "av_save_arbitrum")
    /\ certs' = IF dbOk THEN updateArbitrumHash(call[p].cert, call[p].arbitrumHash)
                ELSE certs
    /\ Step(p, ArbitrumSaved(call[p], dbOk))
    /\ UNCHANGED <<budget, config>>

\* ------------------------------------------------------------ generateQRCode
\* a variant that writes a fresh row around the URL
updateQRUrlFreshRow(id, qrUrl) ==
    UpdateRow(id, [Certificate EXCEPT !.qr_url = qrUrl])

updateQRUrl(id, qrUrl) ==
    UpdateRow(id, [certs[id] EXCEPT !.qr_url = qrUrl])

\* a variant without the check of the transaction hash
HasTransactionHashUnchecked(row) == TRUE

\* if (!certificate.transaction_hash) throw
HasTransactionHash(row) == row.transaction_hash # Null

\* a variant that goes on to the QR image whatever the row holds
QRReadUnchecked(c, dbOk) ==
    IF ~Found(c.cert, dbOk)
    THEN StageFail(MetRead(c, "certificate read"), Err("NotFound"))
    ELSE [c EXCEPT !.pc = "qr_make"]

QRRead(c, dbOk) ==
    IF ~Found(c.cert, dbOk)
    THEN StageFail(MetRead(c, "certificate read"), Err("NotFound"))
    ELSE IF ~HasTransactionHash(certs[c.cert]) THEN StageFail(c, Err("Precondition"))
    ELSE [c EXCEPT !.pc = "qr_make"]

\* a variant that always builds the URL on the default gateway
QRUrlDefaultGateway(cid) == <<DefaultGateway, "/ipfs/", cid>>

\* `${gatewayUrl}/ipfs/${qrUpload.cid}`
QRUrl(cid) == IpfsUrl(cid)

\* generateCustomQR(verificationUrl), then uploadFile of the QR image
QRMade(c, encodeOk, uploadOk, cid) ==
    IF ~encodeOk THEN StageFail(Met(c, "qr encoding", "error"), Err("Encoding"))
    ELSE IF ~uploadOk THEN StageFail(Met(c, "qr upload", "error"), Err("Upload"))
    ELSE [c EXCEPT !.pc = "qr_save", !.qrUrl = QRUrl(cid)]

QRDone(c) ==
    IF c.op = "complete"
    THEN [c EXCEPT !.pc = "c_final"]
    ELSE Return(c, [NoResult EXCEPT !.success = TRUE, !.certificate_id = c.cert,
                                    !.qr_url = c.qrUrl])

generateQRCode(p, id, dbOk) ==
    /\ id \in Targets
    /\ Begin(p, QRRead(NewCall("qr", id), dbOk))
    /\ StartOp
    /\ UNCHANGED <<certs, config>>

\* inside createCompleteCertificate the stage starts here, without a read
MakeQR(p, encodeOk, uploadOk, cid) ==
    /\ At(p, "qr_make")
    /\ Step(p, QRMade([call[p] EXCEPT !.qrRequested = TRUE], encodeOk, uploadOk, cid))
    /\ IF call[p].op = "complete" THEN StartOp ELSE budget' = budget
    /\ UNCHANGED <<certs, config>>

SaveQRUrl(p, dbOk) ==
    /\ At(p, "qr_save")
    /\ LET c == call[p] IN
       IF dbOk
       THEN /\ certs' = updateQRUrl(c.cert, c.qrUrl)
            /\ Step(p, QRDone([c EXCEPT !.wrote = @ \cup {"qr_url"}]))
       ELSE /\ certs' = certs
            /\ Step(p, StageFail(Met(c, "qr_url write", "error"), Err("Database")))
    /\ UNCHANGED <<budget, config>>

\* ------------------------------------------------- createCompleteCertificate
\* getCertificateStatus: the progress flags derived from the row
getCertificateStatus(row) ==
    [basic_created |-> TRUE,
     uploaded_to_pinata |-> row.image_hash # Null /\ row.metadata_hash # Null,
     sent_to_avalanche |-> row.transaction_hash # Null,
     qr_generated |-> row.qr_url # NullUrl]

\* a variant that goes on to step 2 after a failed createBasicCertificate
BasicCreatedGoingOn(c, created) ==
    IF created
    THEN [c EXCEPT !.pc = "up_read", !.current_step = "Uploading to Pinata"]
    ELSE [Met(c, "insert", "error") EXCEPT !.pc = "up_read",
                                           !.current_step = "Uploading to Pinata"]

\* step 1, createBasicCertificate: its error leaves through the outer catch
BasicCreated(c, created) ==
    IF created
    THEN [c EXCEPT !.pc = "up_read", !.current_step = "Uploading to Pinata"]
    ELSE Throw(Met(c, "insert", "error"), Err("Database"))

createCompleteCertificate(p, createDto, id, dbOk) ==
    /\ Begin(p, BasicCreated([NewCall("complete", id) EXCEPT !.createDto = createDto],
                             dbOk /\ ~Exists(id)))
    /\ certs' = InsertCertificate(id, dbOk)
    /\ StartOp
    /\ UNCHANGED config

\* the result of the happy path, after the last getCertificateById
CompleteResult(c, finalCertificate) ==
    [NoResult EXCEPT !.success = TRUE, !.certificate_id = c.cert,
                     !.certificate = finalCertificate,
                     !.qr_url = c.qrUrl, !.current_step = "Completed"]

FinalRead(p, dbOk) ==
    /\ At(p, "c_final")
    /\ Step(p, IF Found(call[p].cert, dbOk)
               THEN Return(call[p], CompleteResult(call[p], certs[call[p].cert]))
               ELSE StageFail(MetRead(call[p], "final read"), Err("NotFound")))
    /\ UNCHANGED <<certs, budget, config>>

\* the inner catch: await getCertificateStatus, then the partial result; a
\* throw of getCertificateStatus leaves through the outer catch, which rethrows
PartialResult(c, dbOk) ==
    IF Found(c.cert, dbOk)
    THEN Return(c, [NoResult EXCEPT !.success = FALSE, !.certificate_id = c.cert,
                                    !.error = c.error,
                                    !.current_step = c.current_step,
                                    !.current_status = getCertificateStatus(certs[c.cert])])
    ELSE Throw(MetRead(c, "status read"), Err("NotFound"))

StatusRead(p, dbOk) ==
    /\ At(p, "c_status")
    /\ Step(p, PartialResult(call[p], dbOk))
    /\ UNCHANGED <<certs, budget, config>>

\* ------------------------------------------- POST /certificates/create-complete
\* the status of a handler that returns, under @Post without @HttpCode
Created == 201
\* HttpStatus.INTERNAL_SERVER_ERROR
InternalServerError == 500

\* The status the controller answers with for a call of
\* createCompleteCertificate that has ended: both branches of
\* if (result.success) return a body, the catch throws an HttpException.
PostCreateComplete(c) ==
    IF c.outcome = "thrown" THEN InternalServerError
    ELSE IF c.result.success THEN Created
    ELSE Created

\* ------------------------------------ GET /certificates/:id and :id/status
\* the status of a @Get handler that returns
Ok == 200
\* HttpStatus.NOT_FOUND
NotFound == 404

\* getCertificate of the controller: the catch looks at error.status, which
\* is 404 for the NotFoundException of getCertificateById
GetCertificate(c) ==
    IF c.outcome = "returned" THEN Ok
    ELSE IF c.error.kind = "NotFound" THEN NotFound
    ELSE InternalServerError

\* getCertificateStatus of the controller: the catch has one answer
GetCertificateStatus(c) ==
    IF c.outcome = "returned" THEN Ok ELSE InternalServerError

\* ------------------------------------------------------- the read operations
\* new Date(): a reading of the clock
Times == 1..MaxTime

\* getCertificateById
CertificateRead(c, dbOk) ==
    IF Found(c.cert, dbOk)
    THEN Return(c, [NoResult EXCEPT !.certificate_id = c.cert,
                                    !.certificate = certs[c.cert]])
    ELSE Throw(MetRead(c, "certificate read"), Err("NotFound"))

\* a variant that resets the row it reads
getCertificateByIdResetting(p, id, dbOk) ==
    /\ id \in Targets
    /\ Begin(p, CertificateRead(NewCall("getById", id), dbOk))
    /\ certs' = UpdateRow(id, Certificate)
    /\ UNCHANGED <<budget, config>>

getCertificateById(p, id, dbOk) ==
    /\ id \in Targets
    /\ Begin(p, CertificateRead(NewCall("getById", id), dbOk))
    /\ UNCHANGED <<certs, budget, config>>

\* `${this.configService.get('PINATA_GATEWAY_URL')}/ipfs/${hash}`, no default
StatusUrl(hash) == IF hash = Null THEN NullUrl ELSE <<config, "/ipfs/", hash>>

\* getCertificateStatus: getCertificateById is awaited without a try
StatusSnapshot(c, dbOk) ==
    IF Found(c.cert, dbOk)
    THEN Return(c, [NoResult EXCEPT
                       !.certificate_id = c.cert,
                       !.current_status = getCertificateStatus(certs[c.cert]),
                       !.image_url = StatusUrl(certs[c.cert].image_hash),
                       !.metadata_url = StatusUrl(certs[c.cert].metadata_hash),
                       !.qr_url = certs[c.cert].qr_url,
                       !.transaction_hash = certs[c.cert].transaction_hash])
    ELSE Throw(MetRead(c, "certificate read"), Err("NotFound"))

CertificateStatus(p, id, dbOk) ==
    /\ id \in Targets
    /\ Begin(p, StatusSnapshot(NewCall("status", id), dbOk))
    /\ UNCHANGED <<certs, budget, config>>

ValidationUrl(hash) == IF hash = Null THEN NullUrl ELSE IpfsUrl(hash)

\* a variant without the catch
ValidationRethrowing(c, dbOk, now) ==
    IF Found(c.cert, dbOk)
    THEN Return(c, [NoResult EXCEPT !.certificate_id = c.cert,
                                    !.validation = [NoValidation EXCEPT
                                                       !.valid = TRUE,
                                                       !.verified_at = now]])
    ELSE Throw(MetRead(c, "certificate read"), Err("NotFound"))

\* validateCertificate: the catch turns the error of the read into a result
Validation(c, dbOk, now) ==
    IF Found(c.cert, dbOk)
    THEN Return(c, [NoResult EXCEPT
                       !.certificate_id = c.cert,
                       !.validation =
                           [valid |-> TRUE, error |-> NoError,
                            pinata_check |-> certs[c.cert].image_hash # Null
                                             /\ certs[c.cert].metadata_hash # Null,
                            avalanche_check |-> certs[c.cert].transaction_hash # Null,
                            arbitrum_check |-> certs[c.cert].arbitrum_hash # Null,
                            image_url |-> ValidationUrl(certs[c.cert].image_hash),
                            metadata_url |-> ValidationUrl(certs[c.cert].metadata_hash),
                            verified_at |-> now]])
    ELSE Return(MetRead(c, "certificate read"),
                [NoResult EXCEPT !.certificate_id = c.cert,
                                 !.validation = [NoValidation EXCEPT
                                                    !.error = Err("NotFound"),
                                                    !.verified_at = now]])

\* a variant that calls valid only a certificate that has a transaction_hash
validateCertificateAnchoredOnly(p, id, dbOk, now) ==
    /\ id \in Targets
    /\ now >= ret.result.validation.verified_at
    /\ LET c == Validation(NewCall("validate", id), dbOk, now) IN
       Begin(p, [c EXCEPT !.result.validation.valid =
                              c.result.validation.avalanche_check])
    /\ UNCHANGED <<certs, budget, config>>

\* the clock does not go back
validateCertificate(p, id, dbOk, now) ==
    /\ id \in Targets
    /\ now >= ret.result.validation.verified_at
    /\ Begin(p, Validation(NewCall("validate", id), dbOk, now))
    /\ UNCHANGED <<certs, budget, config>>

\* The rows the pipeline can leave in the table: the two hashes come
\* together, the transaction hash after them, the secondary hash and the
\* QR URL after the transaction hash.
StoredRows ==
    {Certificate}
    \cup {[Certificate EXCEPT !.image_hash = cid, !.metadata_hash = MetadataCid(cid)] :
             cid \in CIDs}
    \cup {[image_hash |-> cid, metadata_hash |-> MetadataCid(cid),
           transaction_hash |-> tx, arbitrum_hash |-> arb, qr_url |-> qr] :
             cid \in CIDs, tx \in AvalancheHashes,
             arb \in {Null} \cup ArbitrumHashes,
             qr \in {NullUrl} \cup {IpfsUrl(q) : q \in QRCIDs}}

StoredTables == UNION {[1..n -> StoredRows] : n \in 0..MaxRows}

\* the service at rest, after the pipeline has run some number of times
InitReads ==
    /\ config \in GatewayConfigs
    /\ certs \in StoredTables
    /\ known = DOMAIN certs
    /\ call = [p \in Procs |-> IdleCall]
    /\ ret = IdleCall
    /\ budget = 0
    /\ AccountsAtRest

NextReads ==
    \E p \in Procs :
        \/ \E id \in Targets, dbOk \in BOOLEAN : getCertificateById(p, id, dbOk)
        \/ \E id \in Targets, dbOk \in BOOLEAN : CertificateStatus(p, id, dbOk)
        \/ \E id \in Targets, dbOk \in BOOLEAN, now \in Times :
              validateCertificate(p, id, dbOk, now)

SpecReads == InitReads /\ [][NextReads]_vars

\* ---------------------------------------------------------------- the system
Next ==
    \E p \in Procs :
        \/ \E id \in NewIds, dbOk \in BOOLEAN :
              createBasicCertificate(p, FilledDto, id, dbOk)
        \/ \E id \in Targets, dbOk \in BOOLEAN : uploadToPinata(p, id, dbOk)
        \/ \E dbOk \in BOOLEAN : UploadReadStep(p, dbOk)
        \/ \E u \in Uploads, cid \in CIDs : UploadFiles(p, u[1], u[2], cid)
        \/ \E dbOk \in BOOLEAN : UploadSave(p, dbOk)
        \/ \E id \in Targets, r \in AvalancheReads :
              sendToAvalanche(p, id, r[1], r[2], r[3])
        \/ \E r \in AvalancheReads : AvalancheReadStep(p, r[1], r[2], r[3])
        \/ \E fetches \in PreMintFetches : ValidatePreMint(p, fetches[1], fetches[2])
        \/ \E answer \in MintAnswers : Mint(p, answer)
        \/ \E dbOk \in BOOLEAN : SaveTransactionHash(p, dbOk)
        \/ \E dbOk \in BOOLEAN : SaveArbitrumHash(p, dbOk)
        \/ \E id \in Targets, dbOk \in BOOLEAN : generateQRCode(p, id, dbOk)
        \/ \E encodeOk, uploadOk \in BOOLEAN, cid \in QRCIDs :
              MakeQR(p, encodeOk, uploadOk, cid)
        \/ \E dbOk \in BOOLEAN : SaveQRUrl(p, dbOk)
        \/ \E id \in NewIds, dbOk \in BOOLEAN :
              createCompleteCertificate(p, FilledDto, id, dbOk)
        \/ \E dbOk \in BOOLEAN : FinalRead(p, dbOk)
        \/ \E dbOk \in BOOLEAN : StatusRead(p, dbOk)

Spec == Init /\ [][Next]_vars

\* ------------------------------------------------------------ properties
\* ret is the call that has just returned or thrown; Row is the row of
\* its certificate in the state it ended in.
Row == certs[ret.cert]

Failed(c) == c.outcome = "thrown" \/ (c.outcome = "returned" /\ ~c.result.success)

\* C1: every certificate that has a transaction_hash has an image_hash and
\* a metadata_hash, whatever calls ran, interleaved or failed.
C1_TransactionHashOnlyWithHashes ==
    \A id \in DOMAIN certs :
        certs[id].transaction_hash # Null
        => certs[id].image_hash # Null /\ certs[id].metadata_hash # Null

C1_Anchored == \E id \in DOMAIN certs : certs[id].transaction_hash # Null

\* C2: every certificate that has a qr_url has a transaction_hash, the QR
\* step inside createCompleteCertificate included.
C2_QRUrlOnlyWithTransactionHash ==
    \A id \in DOMAIN certs :
        certs[id].qr_url # NullUrl => certs[id].transaction_hash # Null

C2_HasQR == \E id \in DOMAIN certs : certs[id].qr_url # NullUrl

\* C3: once its basic creation has succeeded, createCompleteCertificate
\* never throws; a failure of a later step, the status read included, ends
\* in a result with success false that carries the certificate id, the
\* error, the step and the status.
C3_CompleteNeverThrows ==
    (ret.op = "complete" /\ ret.current_step # "")
    => /\ ret.outcome = "returned"
       /\ ~ret.result.success
          => /\ ret.result.certificate_id = ret.cert
             /\ ret.result.error # NoError
             /\ ret.result.current_step = ret.current_step
             /\ ret.result.current_status.basic_created

\* a call of sendToAvalanche that ended on a certificate without its hashes
C4_Unanchorable ==
    /\ ret.op = "avalanche"
    /\ Exists(ret.cert)
    /\ (Row.image_hash = Null \/ Row.metadata_hash = Null)

C4_NothingDone ==
    /\ ret.outcome = "thrown"
    /\ ~ret.gatewayFetched
    /\ ~ret.mintSent
    /\ ret.wrote = {}

\* C4 as stated: sendToAvalanche on a certificate without image_hash or
\* metadata_hash always fails with the precondition error, makes no request
\* to the gateway or to the mint endpoint and writes nothing.
C4_AlwaysPreconditionError ==
    C4_Unanchorable => C4_NothingDone /\ ret.error.kind = "Precondition"

\* C4: sendToAvalanche on a certificate without image_hash or metadata_hash
\* always fails, with the precondition error when the read of the
\* certificate succeeds and with the not-found error when that read fails;
\* it makes no request to the gateway or to the mint endpoint and writes
\* nothing.
C4_PreconditionOrNotFound ==
    C4_Unanchorable
    => /\ C4_NothingDone
       /\ ret.fault = NoFault => ret.error.kind = "Precondition"
       /\ ret.fault # NoFault
          => ret.fault.at = "certificate read" /\ ret.error.kind = "NotFound"

C4_PreconditionFailed == C4_Unanchorable /\ ret.error.kind = "Precondition"

\* C5: when a fetch of the pre-mint validation does not answer as it
\* should, the anchoring fails, the mint request is not sent in that call
\* and the call does not write transaction_hash.
C5_ValidationFailureStopsBeforeMint ==
    (ret.op \in {"avalanche", "complete"}
     /\ ret.fault.at \in {"metadata fetch", "image fetch"})
    => /\ Failed(ret)
       /\ ret.op = "avalanche" => ret.outcome = "thrown"
       /\ ~ret.mintSent
       /\ ret.wrote \cap {"transaction_hash", "arbitrum_hash"} = {}

C5_ImageNotAnImage ==
    /\ ret.op = "avalanche"
    /\ ret.fault.at = "image fetch"
    /\ ret.fault.why = "not an image"
    /\ ret.error.kind = "Validation"

\* C6: when the write of arbitrum_hash fails after transaction_hash has
\* been written, sendToAvalanche still returns the transaction hash.
C6_ArbitrumWriteFailureTolerated ==
    (ret.op = "avalanche" /\ ret.fault.at = "arbitrum_hash write")
    => /\ ret.outcome = "returned"
       /\ ret.result.success
       /\ ret.result.transaction_hash # Null

\* C7: when the mint endpoint answers with a non-success status inside
\* createCompleteCertificate, the result has success false and the step
\* 'Sending to Avalanche', and the row has its two hashes, no
\* transaction_hash and no qr_url.
C7_MintRefusedInComplete ==
    (ret.op = "complete" /\ ret.fault.at = "mint" /\ ret.fault.why = "not ok")
    => /\ ret.outcome = "returned"
       /\ ~ret.result.success
       /\ ret.result.current_step = "Sending to Avalanche"
       /\ Row.image_hash # Null /\ Row.metadata_hash # Null
       /\ Row.transaction_hash = Null /\ Row.qr_url = NullUrl

\* C8: when createCompleteCertificate returns success true, the row has
\* image_hash, metadata_hash, transaction_hash and qr_url, the returned
\* certificate is that row, and the returned qr_url is the row's and
\* starts with the gateway base of the configuration.
C8_CompleteSuccess ==
    (ret.op = "complete" /\ ret.outcome = "returned" /\ ret.result.success)
    => /\ Row.image_hash # Null /\ Row.metadata_hash # Null
       /\ Row.transaction_hash # Null /\ Row.qr_url # NullUrl
       /\ ret.result.certificate = Row
       /\ ret.result.qr_url = Row.qr_url
       /\ ret.result.qr_url[1] = IF config = Null THEN DefaultGateway ELSE config

C8_Completed ==
    /\ ret.op = "complete" /\ ret.outcome = "returned" /\ ret.result.success
    /\ config # Null

\* C9: a progress field that is not null stays not null in every step,
\* failed and repeated operations included.
C9_ProgressNeverCleared ==
    [][\A id \in DOMAIN certs :
         /\ id \in DOMAIN certs'
         /\ certs[id].image_hash # Null => certs'[id].image_hash # Null
         /\ certs[id].metadata_hash # Null => certs'[id].metadata_hash # Null
         /\ certs[id].transaction_hash # Null => certs'[id].transaction_hash # Null
         /\ certs[id].arbitrum_hash # Null => certs'[id].arbitrum_hash # Null
         /\ certs[id].qr_url # NullUrl => certs'[id].qr_url # NullUrl]_vars

\* an upload repeated on a certificate that is anchored already
C9_UploadRepeated ==
    /\ ret.op = "upload" /\ ret.outcome = "returned"
    /\ Exists(ret.cert) /\ Row.transaction_hash # Null

\* C10: a non-success status of the mint endpoint makes sendToAvalanche
\* fail with an error that carries that status and the body of the answer,
\* and the call writes neither transaction_hash nor arbitrum_hash.
C10_MintRefused ==
    (ret.op = "avalanche" /\ ret.fault.at = "mint" /\ ret.fault.why = "not ok")
    => /\ ret.outcome = "thrown"
       /\ ret.error.kind = "AvalancheApi"
       /\ ret.error.status = ret.fault.status
       /\ ret.error.body = ret.fault.body
       /\ ret.wrote \cap {"transaction_hash", "arbitrum_hash"} = {}

C10_LedgerDown ==
    /\ ret.op = "avalanche" /\ ret.fault.at = "mint"
    /\ ret.error.status = 500 /\ ret.error.body = "ledger down"

\* the places of an answer where a transaction hash can be, in the order
\* primary chain, secondary chain, top-level aliases; Null where it has none
Candidates(result) ==
    <<IF result.avalanche = Absent THEN Null ELSE result.avalanche,
      IF result.arbitrum = Absent THEN Null ELSE result.arbitrum>> \o result.flat

Places(result) == {i \in DOMAIN Candidates(result) : Candidates(result)[i] # Null}

FirstPresent(result) ==
    IF Places(result) = {} THEN Null
    ELSE Candidates(result)[CHOOSE i \in Places(result) :
                                \A j \in Places(result) : i <= j]

SuccessAnswers == {answer \in MintAnswers : answer.fetched = "ok"}

\* C11: when the answer of the mint endpoint has the transaction hash in
\* exactly one place (under data.avalanche.data, under data.arbitrum.data,
\* or under one top-level alias), sendToAvalanche takes that hash and
\* writes it as transaction_hash.
C11_HashInOnePlaceIsExtracted ==
    \A p \in Procs : At(p, "av_mint") =>
        \A answer \in SuccessAnswers :
            Cardinality(Places(answer.result)) = 1 =>
                LET d == Minted(call[p], answer) IN
                /\ d.pc = "av_save"
                /\ d.transactionHash = FirstPresent(answer.result)
                /\ updateTransactionHash(d.cert, d.transactionHash)[d.cert].transaction_hash
                      = FirstPresent(answer.result)

\* C12: sendToAvalanche takes the first candidate that is present, in the
\* order primary chain, secondary chain, top-level aliases, and fails with
\* 'No transaction hash received' only when no candidate is present.
C12_FirstPresentCandidateIsTaken ==
    \A p \in Procs : At(p, "av_mint") =>
        \A answer \in SuccessAnswers :
            LET d == Minted(call[p], answer) IN
            IF FirstPresent(answer.result) = Null
            THEN d.error.kind = "NoTransactionHash"
            ELSE d.pc = "av_save" /\ d.transactionHash = FirstPresent(answer.result)

\* C13: a call of uploadToPinata that fails, at the read, at an upload or
\* at the update, has written nothing: the step in which it fails leaves
\* the table as it is, and no step of the call before it wrote a field.
C13_FailedUploadWritesNothing ==
    [][(ret'.op = "upload" /\ ret'.outcome = "thrown")
       => certs' = certs /\ ret'.wrote = {}]_vars

C13_UpdateFailed ==
    /\ ret.op = "upload" /\ ret.outcome = "thrown"
    /\ ret.fault.at = "hashes write"
    /\ Row.image_hash = Null /\ Row.metadata_hash = Null

\* a call of generateQRCode that ended on a certificate without a
\* transaction hash
C14_NotAnchored ==
    ret.op = "qr" /\ Exists(ret.cert) /\ Row.transaction_hash = Null

\* C14 as stated: generateQRCode on a certificate without transaction_hash
\* fails with the precondition error and encodes and uploads nothing; a
\* call of generateQRCode that fails has written nothing.
C14_AlwaysPreconditionError ==
    /\ C14_NotAnchored
       => /\ ret.outcome = "thrown" /\ ret.error.kind = "Precondition"
          /\ ~ret.qrRequested
    /\ (ret.op = "qr" /\ ret.outcome = "thrown") => ret.wrote = {}

\* C14: generateQRCode on a certificate without transaction_hash fails,
\* with the precondition error when the read of the certificate succeeds
\* and with the not-found error when that read fails, and encodes and
\* uploads nothing; a call of generateQRCode that fails, at whatever point,
\* leaves the table as it is in its last step and has written nothing.
C14_FailedQRWritesNothing ==
    [][/\ (ret'.op = "qr" /\ Exists(ret'.cert)
            /\ certs'[ret'.cert].transaction_hash = Null)
          => /\ ret'.outcome = "thrown"
             /\ ~ret'.qrRequested
             /\ ret'.fault = NoFault => ret'.error.kind = "Precondition"
             /\ ret'.fault # NoFault
                => ret'.fault.at = "certificate read" /\ ret'.error.kind = "NotFound"
       /\ (ret'.op = "qr" /\ ret'.outcome = "thrown")
          => certs' = certs /\ ret'.wrote = {}]_vars

C14_QRRefused == C14_NotAnchored /\ ret.error.kind = "Precondition"

\* C15: in sendToAvalanche, a lookup of the recipient's user that finds no
\* row, several rows or an error does not fail the call: the placeholder
\* identity is used, and the call goes on to the pre-mint validation.
C15_StudentLookupTolerated ==
    \A id \in DOMAIN certs :
        (certs[id].image_hash # Null /\ certs[id].metadata_hash # Null)
        => \A lookup \in StudentLookups \ {"one"} :
              LET d == AvalancheRead(NewCall("avalanche", id), TRUE, TRUE, lookup) IN
              /\ d.outcome = "pending"
              /\ d.pc = "av_validate"
              /\ d.studentData = "placeholder"

\* a call of sendToAvalanche that works with the placeholder has minted
C15_MintedForPlaceholder ==
    \E p \in Procs : /\ At(p, "av_mint") /\ call[p].op = "avalanche"
                      /\ call[p].studentData = "placeholder"

\* C16: validateCertificate never throws, and for an id that names no row
\* it returns valid false with an error; getCertificateStatus for such an
\* id fails with the not-found error.
C16_ValidateNeverThrows ==
    /\ ret.op = "validate"
       => /\ ret.outcome = "returned"
          /\ ~Exists(ret.cert)
             => /\ ~ret.result.validation.valid
                /\ ret.result.validation.error # NoError
    /\ (ret.op = "status" /\ ~Exists(ret.cert))
       => ret.outcome = "thrown" /\ ret.error.kind = "NotFound"

C16_UnknownIdValidated ==
    /\ ret.op = "validate" /\ ~Exists(ret.cert)
    /\ ret.outcome = "returned" /\ ~ret.result.validation.valid

\* C17: two calls of getCertificateStatus in a row on the same unchanged
\* certificate return the same snapshot, and so do two calls of
\* validateCertificate, field by field.
C17_ReadsRepeatable ==
    [][(/\ ret.op \in {"status", "validate"} /\ ret'.op = ret.op
        /\ ret'.cert = ret.cert /\ Exists(ret.cert)
        /\ ret.outcome = "returned" /\ ret'.outcome = "returned"
        /\ ret.fault = NoFault /\ ret'.fault = NoFault
        /\ certs' = certs)
       => ret'.result = ret.result]_vars

\* C18: getCertificateById, getCertificateStatus and validateCertificate
\* leave every row of the table as it is, whether they succeed or fail.
C18_ReadsLeaveStore ==
    [][ret'.op \in {"getById", "status", "validate"} => certs' = certs]_vars

C18_ReadFailed ==
    /\ ret.op = "getById" /\ ret.outcome = "thrown"
    /\ Exists(ret.cert) /\ Row # Certificate

\* C19: a createBasicCertificate that succeeds inserts and returns a row
\* under an id no row had, with image_hash, metadata_hash,
\* transaction_hash, arbitrum_hash and qr_url null, and leaves the other
\* rows alone; a second call makes a second row.
C19_NewCertificate ==
    [][(ret'.op = "createBasic" /\ ret'.outcome = "returned")
       => /\ ret'.cert \notin DOMAIN certs
          /\ DOMAIN certs' = DOMAIN certs \cup {ret'.cert}
          /\ \A id \in DOMAIN certs : certs'[id] = certs[id]
          /\ ret'.result.certificate_id = ret'.cert
          /\ ret'.result.certificate = certs'[ret'.cert]
          /\ certs'[ret'.cert].image_hash = Null
          /\ certs'[ret'.cert].metadata_hash = Null
          /\ certs'[ret'.cert].transaction_hash = Null
          /\ certs'[ret'.cert].arbitrum_hash = Null
          /\ certs'[ret'.cert].qr_url = NullUrl]_vars

C19_SecondCertificate ==
    /\ ret.op = "createBasic" /\ ret.outcome = "returned"
    /\ Cardinality(DOMAIN certs) = 2

\* C20: when createCompleteCertificate returns success false, the
\* controller answers with a status of its own for the partial outcome:
\* not the status of a certificate created in full, and not an error status.
C20_PartialStatus ==
    (ret.op = "complete" /\ ret.outcome = "returned" /\ ~ret.result.success)
    => /\ PostCreateComplete(ret) # Created
       /\ PostCreateComplete(ret) < 400

\* C21: a request for an id that names no certificate is answered with
\* the not-found status, by GET /certificates/:id and by
\* GET /certificates/:id/status.
C21_UnknownIdNotFound ==
    /\ (ret.op = "getById" /\ ~Exists(ret.cert)) => GetCertificate(ret) = NotFound
    /\ (ret.op = "status" /\ ~Exists(ret.cert)) => GetCertificateStatus(ret) = NotFound

\* C22: when createBasicCertificate fails inside createCompleteCertificate,
\* the call throws (the route answers with an error status), the step that
\* ends it leaves the table as it was, and the call has made no upload, no
\* gateway fetch and no mint request.
C22_FailedCreateThrows ==
    [][(ret'.op = "complete" /\ ret'.fault.at = "insert")
       => /\ ret'.outcome = "thrown"
          /\ ret'.result = NoResult
          /\ PostCreateComplete(ret') = InternalServerError
          /\ certs' = certs
          /\ ~ret'.uploadSent /\ ~ret'.gatewayFetched
          /\ ~ret'.mintSent /\ ~ret'.qrRequested
          /\ ret'.wrote = {}]_vars

C22_CreateFailed ==
    /\ ret.op = "complete" /\ ret.fault.at = "insert"
    /\ ret.outcome = "thrown"

\* ------------------------------------------------- resuming a certificate
\* The certificate a call of createCompleteCertificate has left behind when
\* it returned success: false, and the stage operations a caller then
\* invokes on it, one after the other, with every outside call succeeding.
ResumedId == 1

\* what the caller of the failed createCompleteCertificate has received
LeftPartial(row) ==
    Return([NewCall("complete", ResumedId) EXCEPT !.createDto = FilledDto],
           [NoResult EXCEPT !.success = FALSE, !.certificate_id = ResumedId,
                            !.current_status = getCertificateStatus(row)])

InitResume ==
    /\ config \in GatewayConfigs
    /\ \E row \in StoredRows :
          /\ certs = (ResumedId :> row)
          /\ ret = LeftPartial(row)
    /\ known = {ResumedId}
    /\ call = [p \in Procs |-> IdleCall]
    /\ budget = MaxOps - 1
    /\ AccountsAtRest

\* the first stage current_status reports as not done
FirstIncomplete(status) ==
    IF ~status.uploaded_to_pinata THEN "upload"
    ELSE IF ~status.sent_to_avalanche THEN "avalanche"
    ELSE IF ~status.qr_generated THEN "qr"
    ELSE "none"

Resuming(stage) ==
    /\ \A q \in Procs : call[q].outcome = "idle"
    /\ FirstIncomplete(getCertificateStatus(certs[ResumedId])) = stage

\* the answers of a ledger that has minted: a transaction hash is in them
HashedAnswers == {answer \in SuccessAnswers : Places(answer.result) # {}}

NextResume ==
    \E p \in Procs :
        \/ Resuming("upload") /\ uploadToPinata(p, ResumedId, TRUE)
        \/ \E cid \in CIDs : UploadFiles(p, TRUE, TRUE, cid)
        \/ UploadSave(p, TRUE)
        \/ /\ Resuming("avalanche")
           /\ \E student \in StudentLookups \ {"error"} :
                 sendToAvalanche(p, ResumedId, TRUE, TRUE, student)
        \/ ValidatePreMint(p, "ok", "ok")
        \/ \E answer \in HashedAnswers : Mint(p, answer)
        \/ SaveTransactionHash(p, TRUE)
        \/ SaveArbitrumHash(p, TRUE)
        \/ Resuming("qr") /\ generateQRCode(p, ResumedId, TRUE)
        \/ \E cid \in QRCIDs : MakeQR(p, TRUE, TRUE, cid)
        \/ SaveQRUrl(p, TRUE)

SpecResume == InitResume /\ [][NextResume]_vars

AllDone == [basic_created |-> TRUE, uploaded_to_pinata |-> TRUE,
            sent_to_avalanche |-> TRUE, qr_generated |-> TRUE]

\* C23: on a certificate createCompleteCertificate has left unfinished, the
\* stage operations invoked from the first incomplete stage onward, with
\* every outside call succeeding, each return, the last of them leaves a
\* certificate whose status reports the four flags true, and no certificate
\* is created on the way.
C23_ResumeCompletes ==
    /\ DOMAIN certs = {ResumedId}
    /\ ret.op \in {"upload", "avalanche", "qr"} => ret.outcome = "returned"
    /\ (ret.op = "qr" /\ ret.outcome = "returned")
          => getCertificateStatus(certs[ResumedId]) = AllDone

\* C24: pipelines that run interleaved on different certificates do not
\* touch each other's rows: a step changes the row of a certificate only if
\* it is a step of a call on that certificate, and it adds a row only under
\* the id of the call that ends or goes on with it.
C24_OtherRowsUntouched ==
    [][/\ \A b \in DOMAIN certs :
             certs'[b] # certs[b]
                => \E p \in Procs : /\ call[p].outcome = "pending"
                                      /\ call[p].cert = b
                                      /\ call'[p] # call[p]
       /\ \A b \in DOMAIN certs' \ DOMAIN certs :
             \/ ret'.cert = b
             \/ \E p \in Procs : call'[p].outcome = "pending" /\ call'[p].cert = b
       /\ DOMAIN certs \subseteq DOMAIN certs']_vars

\* an upload has just written its certificate while a call on another
\* certificate is still on its way
C24_WroteBesideAnother ==
    /\ ret.op = "upload" /\ ret.outcome = "returned" /\ ret.wrote # {}
    /\ \E q \in Procs : /\ call[q].outcome = "pending"
                          /\ call[q].cert # ret.cert
                          /\ Exists(call[q].cert)

\* ------------------------------------------------ creating with any input
\* The two operations that take a createDto, with every createDto a request
\* can carry.
NextCreate ==
    \E p \in Procs :
        \/ \E createDto \in CreateCertificateDtos, id \in NewIds, dbOk \in BOOLEAN :
              createBasicCertificate(p, createDto, id, dbOk)
        \/ \E createDto \in CreateCertificateDtos, id \in NewIds, dbOk \in BOOLEAN :
              createCompleteCertificate(p, createDto, id, dbOk)

SpecCreate == Init /\ [][NextCreate]_vars

Complete(createDto) == \A f \in DtoFields : createDto[f] \notin {Undefined, ""}

\* C25: createBasicCertificate and createCompleteCertificate, given a
\* createDto in which one of the four fields is missing or empty, throw a
\* bad-input error and insert no row.
C25_IncompleteInputRejected ==
    [][/\ (ret'.op \in {"createBasic", "complete"} /\ ~Complete(ret'.createDto))
          => /\ ret'.outcome = "thrown"
             /\ ret'.error.kind = "BadInput"
             /\ certs' = certs
       /\ \A p \in Procs :
             (call[p].outcome = "idle" /\ call'[p].op = "complete")
                => Complete(call'[p].createDto)]_vars

\* ================================================= institutions and users
\* ------------------------------------------------------------- passwords
\* A password, as far as validatePasswordStrength tells passwords apart:
\* its length, whether it has a lowercase letter, an uppercase letter and a
\* digit, and whether it has a character that is no letter or digit: none,
\* one of !@#$%^&*()_+-=[]{}|;:,.<>? ("listed"), or only others ("other").
Password(length, lower, upper, digit, special) ==
    [length |-> length, lower |-> lower, upper |-> upper, digit |-> digit,
     special |-> special]

NoPassword == Password(0, FALSE, FALSE, FALSE, "none")
\* generateUltraSecureTemporaryPassword
TemporaryPassword == Password(16, TRUE, TRUE, TRUE, "listed")
\* such as NewSecure1!, Passw0rd~1, password1, aA1!, password
Passwords == {TemporaryPassword,
              Password(11, TRUE, TRUE, TRUE, "listed"),
              Password(10, TRUE, TRUE, TRUE, "other"),
              Password(9, TRUE, FALSE, TRUE, "none"),
              Password(4, TRUE, TRUE, TRUE, "listed"),
              Password(8, TRUE, FALSE, FALSE, "none")}

Points(test, points) == IF test THEN points ELSE 0

Score(password) ==
    Points(password.length >= 8, 2)
    + Points(password.lower, 1)
    + Points(password.upper, 1)
    + Points(password.digit, 1)
    + Points(password.special # "none", 1)
    + Points(password.length >= 12, 1)
    + Points(password.special = "listed", 1)

validatePasswordStrength(password) ==
    [isValid |-> Score(password) >= 4,
     score |-> IF Score(password) < 6 THEN Score(password) ELSE 6]

\* bcrypt: a hash matches the password it was made from, and no other
hashPassword(password) == <<"bcrypt", password>>
comparePasswords(password, hash) == hash = hashPassword(password)

\* ---------------------------------------------------------------- the rows
NoSuchUser == MaxOps + 1
Pending == [status |-> "pending"]

\* the row of the owner, as createCompanyWithOwner inserts it
Owner(institution) ==
    [status |-> "pending", role |-> "owner", institution_id |-> institution,
     temporary_password |-> TemporaryPassword,
     encrypted_password |-> hashPassword(TemporaryPassword),
     first_time_login |-> TRUE]

\* Ids are not given twice: a deleted user leaves its id behind.
Deleted == [Owner(0) EXCEPT !.status = "deleted"]
UserExists(id) == id \in DOMAIN users /\ users[id] # Deleted
UserTargets == {id \in DOMAIN users : users[id] # Deleted} \cup {NoSuchUser}

Last(ids) == IF ids = {} THEN 0 ELSE CHOOSE i \in ids : \A j \in ids : j <= i

\* ---------------------------------------------------------------- the calls
NewAccountCall(op, id) ==
    [op |-> op, pc |-> "start", outcome |-> "pending", error |-> NoError,
     user |-> id, institution |-> 0, status |-> "",
     new_password |-> NoPassword, inserted |-> FALSE, sent |-> FALSE]

\* the new password of a request ends with a call that throws
AccountThrow(c, kind) ==
    [c EXCEPT !.pc = "done", !.outcome = "thrown", !.error = Err(kind),
              !.new_password = NoPassword]

AccountReturn(c) == [c EXCEPT !.pc = "done", !.outcome = "returned"]

\* a step of a call on the institutions and users: a call that has ended is
\* shown in ret, and the certificates are left alone
AccountStep(p, c) ==
    /\ call' = [call EXCEPT ![p] = IF c.outcome = "pending" THEN c ELSE IdleCall]
    /\ ret' = IF c.outcome = "pending" THEN IdleCall ELSE c
    /\ UNCHANGED <<certs, known, config, pool>>

\* ----------------------------------------------------- executeTransaction
\* a variant in which a write takes effect at once, outside a transaction
InTransactionAutocommit(before, after) == after

\* BEGIN ... COMMIT on one client: the writes of the callback are not in the
\* table before the COMMIT; ROLLBACK or the end of the session drops them.
InTransaction(before, after) == before

\* ------------------------------------------------ createCompanyWithOwner
\* the id the sequence hands out: not one it has handed out, to a row or
\* to a transaction that is still open
NewInstitutionId ==
    Last(DOMAIN institutions
         \cup {call[q].institution : q \in {r \in Procs : call[r].op = "createCompany"}}) + 1

NewUserId == Last(DOMAIN users) + 1

\* without a pool both rows go to the mock storage; with one, BEGIN and the
\* insert of the institution
createCompanyWithOwner(p, institutionOk) ==
    /\ CanBegin(p)
    /\ StartOp
    /\ LET c == [NewAccountCall("createCompany", NewUserId)
                    EXCEPT !.institution = NewInstitutionId]
       IN IF ~pool
          THEN /\ institutions' = institutions @@ (c.institution :> Pending)
               /\ users' = users @@ (c.user :> Owner(c.institution))
               /\ AccountStep(p, AccountReturn(c))
          ELSE IF institutionOk
          THEN /\ institutions' = InTransaction(institutions,
                                      institutions @@ (c.institution :> Pending))
               /\ users' = users
               /\ AccountStep(p, [c EXCEPT !.pc = "co_user", !.inserted = TRUE])
          ELSE /\ UNCHANGED <<institutions, users>>
               /\ AccountStep(p, AccountThrow(c, "Database"))
    /\ UNCHANGED outbox

\* the insert of the owner and COMMIT, or ROLLBACK
InsertOwner(p, userOk, commitOk) ==
    /\ At(p, "co_user")
    /\ LET c == [call[p] EXCEPT !.user = NewUserId] IN
       IF userOk /\ commitOk
       THEN /\ institutions' = (c.institution :> Pending) @@ institutions
            /\ users' = users @@ (c.user :> Owner(c.institution))
            /\ AccountStep(p, AccountReturn(c))
       ELSE /\ UNCHANGED <<institutions, users>>
            /\ AccountStep(p, AccountThrow(c, "Database"))
    /\ UNCHANGED <<budget, outbox>>

\* ------------------------------------------------------------- approveUser
\* the approval mail, to a user, with the temporary password in it
ApprovalEmail(id, temporaryPassword) ==
    [to |-> id, about |-> "approval", temporaryPassword |-> temporaryPassword]

RejectionEmail(id) ==
    [to |-> id, about |-> "rejection", temporaryPassword |-> NoPassword]

\* The callback up to the mail: the SELECT, the two checks, and the mail
\* of the branch taken; `sent` is what sendUserApprovalEmail or
\* sendUserRejectionEmail returns, which the callback does not look at.
\* A status 'verified' for a user without temporary_password takes neither
\* branch: the callback returns undefined and the transaction commits.
ApproveRead(c, dbOk, sent) ==
    IF ~pool THEN AccountThrow(c, "NotConnected")
    ELSE IF ~dbOk THEN AccountThrow(c, "Database")
    ELSE IF ~UserExists(c.user) THEN AccountThrow(c, "NotFound")
    ELSE IF users[c.user].status # "pending" THEN AccountThrow(c, "BadRequest")
    ELSE IF c.status = "verified" /\ users[c.user].temporary_password # NoPassword
    THEN [c EXCEPT !.pc = "ap_update", !.sent = sent]
    ELSE IF c.status = "rejected"
    THEN [c EXCEPT !.pc = "ap_delete", !.sent = sent]
    ELSE AccountReturn(c)

approveUser(p, userId, status, dbOk, sent) ==
    /\ CanBegin(p)
    /\ StartOp
    /\ userId \in UserTargets
    /\ LET c == ApproveRead([NewAccountCall("approveUser", userId) EXCEPT !.status = status],
                            dbOk, sent)
       IN /\ AccountStep(p, c)
          /\ outbox' = IF c.outcome = "pending" /\ c.sent
                       THEN outbox \cup {IF status = "verified"
                                         THEN ApprovalEmail(userId,
                                                  users[userId].temporary_password)
                                         ELSE RejectionEmail(userId)}
                       ELSE outbox
    /\ UNCHANGED <<institutions, users>>

\* UPDATE users SET status ... WHERE id, and COMMIT
ApproveUpdate(p, dbOk) ==
    /\ At(p, "ap_update")
    /\ users' = IF dbOk /\ UserExists(call[p].user)
                THEN [users EXCEPT ![call[p].user].status = call[p].status]
                ELSE users
    /\ AccountStep(p, IF dbOk THEN AccountReturn(call[p])
                      ELSE AccountThrow(call[p], "Database"))
    /\ UNCHANGED <<budget, institutions, outbox>>

\* deleteUserWithAssociatedData, and COMMIT: userData has no role (the
\* SELECT does not ask for it), so only the user is deleted
ApproveDelete(p, dbOk) ==
    /\ At(p, "ap_delete")
    /\ users' = IF dbOk /\ UserExists(call[p].user)
                THEN [users EXCEPT ![call[p].user] = Deleted]
                ELSE users
    /\ AccountStep(p, IF dbOk THEN AccountReturn(call[p])
                      ELSE AccountThrow(call[p], "Database"))
    /\ UNCHANGED <<budget, institutions, outbox>>

\* ---------------------------------------------------------- firstTimeLogin
\* the checks, in the order of the code, around findUserByEmail (which
\* answers null when its query fails)
FirstTimeRead(c, temporary_password, confirmed, dbOk) ==
    IF ~confirmed THEN AccountThrow(c, "Mismatch")
    ELSE IF ~validatePasswordStrength(c.new_password).isValid
    THEN AccountThrow(c, "NotStrongEnough")
    ELSE IF ~dbOk \/ ~UserExists(c.user) THEN AccountThrow(c, "NotFound")
    ELSE IF users[c.user].status # "verified" THEN AccountThrow(c, "NotApproved")
    ELSE IF ~users[c.user].first_time_login THEN AccountThrow(c, "AlreadyCompleted")
    ELSE IF ~comparePasswords(temporary_password, users[c.user].encrypted_password)
    THEN AccountThrow(c, "InvalidTemporaryPassword")
    ELSE IF comparePasswords(c.new_password, users[c.user].encrypted_password)
    THEN AccountThrow(c, "SamePassword")
    ELSE [c EXCEPT !.pc = "ft_update"]

firstTimeLogin(p, email, temporary_password, new_password, confirmed, dbOk) ==
    /\ CanBegin(p)
    /\ StartOp
    /\ email \in UserTargets
    /\ AccountStep(p, FirstTimeRead([NewAccountCall("firstTimeLogin", email)
                                        EXCEPT !.new_password = new_password],
                                    temporary_password, confirmed, dbOk))
    /\ UNCHANGED <<institutions, users, outbox>>

\* a variant of the UPDATE without AND first_time_login = true
FirstTimeMatchedById(id) == UserExists(id)

\* the rows UPDATE ... WHERE id = $2 AND first_time_login = true changes;
\* the mock storage looks at the id only
FirstTimeMatched(id) ==
    UserExists(id) /\ (pool => users[id].first_time_login)

FirstTimeUpdate(p, dbOk) ==
    /\ At(p, "ft_update")
    /\ LET c == call[p] IN
       IF pool /\ ~dbOk
       THEN /\ users' = users
            /\ AccountStep(p, AccountThrow(c, "Database"))
       ELSE IF FirstTimeMatched(c.user)
       THEN /\ users' = [users EXCEPT
                           ![c.user].encrypted_password = hashPassword(c.new_password),
                           ![c.user].first_time_login = FALSE]
            /\ AccountStep(p, AccountReturn(c))
       ELSE /\ users' = users
            /\ AccountStep(p, AccountThrow(c, "UpdateFailed"))
    /\ UNCHANGED <<budget, institutions, outbox>>

\* ---------------------------------------------------------- changePassword
\* the checks around SELECT * FROM users WHERE id = $1, which the mock
\* storage answers with no row
ChangeRead(c, current_password, confirmed, dbOk) ==
    IF ~confirmed THEN AccountThrow(c, "Mismatch")
    ELSE IF ~validatePasswordStrength(c.new_password).isValid
    THEN AccountThrow(c, "NotStrongEnough")
    ELSE IF pool /\ ~dbOk THEN AccountThrow(c, "Database")
    ELSE IF ~pool \/ ~UserExists(c.user) THEN AccountThrow(c, "NotFound")
    ELSE IF users[c.user].first_time_login THEN AccountThrow(c, "FirstTimeLoginPending")
    ELSE IF ~comparePasswords(current_password, users[c.user].encrypted_password)
    THEN AccountThrow(c, "CurrentPasswordIncorrect")
    ELSE IF comparePasswords(c.new_password, users[c.user].encrypted_password)
    THEN AccountThrow(c, "SamePassword")
    ELSE [c EXCEPT !.pc = "cp_update"]

changePassword(p, userId, current_password, new_password, confirmed, dbOk) ==
    /\ CanBegin(p)
    /\ StartOp
    /\ userId \in UserTargets
    /\ AccountStep(p, ChangeRead([NewAccountCall("changePassword", userId)
                                     EXCEPT !.new_password = new_password],
                                 current_password, confirmed, dbOk))
    /\ UNCHANGED <<institutions, users, outbox>>

ChangeUpdate(p, dbOk) ==
    /\ At(p, "cp_update")
    /\ LET c == call[p] IN
       IF pool /\ ~dbOk
       THEN /\ users' = users
            /\ AccountStep(p, AccountThrow(c, "Database"))
       ELSE IF UserExists(c.user)
       THEN /\ users' = [users EXCEPT
                           ![c.user].encrypted_password = hashPassword(c.new_password)]
            /\ AccountStep(p, AccountReturn(c))
       ELSE /\ users' = users
            /\ AccountStep(p, AccountThrow(c, "UpdateFailed"))
    /\ UNCHANGED <<budget, institutions, outbox>>

\* ------------------------------------------------ the accounts, as a system
InitAccounts ==
    /\ certs = <<>>
    /\ known = {}
    /\ call = [p \in Procs |-> IdleCall]
    /\ ret = IdleCall
    /\ budget = MaxOps
    /\ config = Null
    /\ institutions = <<>>
    /\ users = <<>>
    /\ outbox = {}
    /\ pool \in BOOLEAN

\* what a request for a change of password carries: new_password, and
\* whether confirm_password repeats it
PasswordChanges == {<<new, TRUE>> : new \in Passwords} \cup {<<TemporaryPassword, FALSE>>}

\* the password a request gives as the one the user has: the right one, or
\* a wrong one
GivenPasswords(id) ==
    {NoPassword} \cup {password \in Passwords :
                          UserExists(id)
                          /\ comparePasswords(password, users[id].encrypted_password)}

NextAccounts ==
    \E p \in Procs :
        \/ \E institutionOk \in BOOLEAN : createCompanyWithOwner(p, institutionOk)
        \/ \E userOk, commitOk \in BOOLEAN : InsertOwner(p, userOk, commitOk)
        \/ \E userId \in UserTargets, status \in {"verified", "rejected"},
              dbOk, sent \in BOOLEAN : approveUser(p, userId, status, dbOk, sent)
        \/ \E dbOk \in BOOLEAN : ApproveUpdate(p, dbOk)
        \/ \E dbOk \in BOOLEAN : ApproveDelete(p, dbOk)
        \/ \E email \in UserTargets, change \in PasswordChanges, dbOk \in BOOLEAN :
              \E old \in GivenPasswords(email) :
                 firstTimeLogin(p, email, old, change[1], change[2], dbOk)
        \/ \E dbOk \in BOOLEAN : FirstTimeUpdate(p, dbOk)
        \/ \E userId \in UserTargets, change \in PasswordChanges, dbOk \in BOOLEAN :
              \E old \in GivenPasswords(userId) :
                 changePassword(p, userId, old, change[1], change[2], dbOk)
        \/ \E dbOk \in BOOLEAN : ChangeUpdate(p, dbOk)

SpecAccounts == InitAccounts /\ [][NextAccounts]_vars

\* C26: createCompanyWithOwner ends with both rows or with neither: when
\* it returns, the institution and the owner are new rows, the owner refers
\* to the institution and is pending; when it throws, the tables are as
\* they were and hold no row of the institution it had inserted; and while
\* its transaction is open the institution is in no table.
C26_CompanyAndOwnerTogether ==
    [][/\ ret'.op = "createCompany"
          => \/ /\ ret'.outcome = "returned"
                /\ ret'.institution \in DOMAIN institutions' \ DOMAIN institutions
                /\ ret'.user \in DOMAIN users' \ DOMAIN users
                /\ users'[ret'.user].institution_id = ret'.institution
                /\ users'[ret'.user].status = "pending"
             \/ /\ ret'.outcome = "thrown"
                /\ institutions' = institutions /\ users' = users
                /\ ret'.institution \notin DOMAIN institutions'
       /\ \A p \in Procs :
             call'[p].op = "createCompany"
                => call'[p].institution \notin DOMAIN institutions']_vars

\* the insert of the owner, or the COMMIT, has failed after the insert of
\* the institution
C26_OwnerInsertFailed ==
    ret.op = "createCompany" /\ ret.outcome = "thrown" /\ ret.inserted

\* C27: approveUser with status 'verified' that returns leaves the user
\* verified, and the approval mail with the temporary password has been
\* sent to that user.
C27_ApprovedAndNotified ==
    (ret.op = "approveUser" /\ ret.status = "verified" /\ ret.outcome = "returned")
       => /\ UserExists(ret.user)
          /\ users[ret.user].status = "verified"
          /\ ApprovalEmail(ret.user, users[ret.user].temporary_password) \in outbox

\* at least 8 characters, with an uppercase letter, a lowercase letter, a
\* digit and a special character
Strong(password) ==
    /\ password.length >= 8
    /\ password.upper /\ password.lower /\ password.digit
    /\ password.special # "none"

\* C28: firstTimeLogin and changePassword return only for a new password
\* of at least 8 characters with an uppercase letter, a lowercase letter, a
\* digit and a special character; a call that rejects the new password
\* leaves the users as they were.
C28_OnlyStrongPasswordsAccepted ==
    [][ret'.op \in {"firstTimeLogin", "changePassword"}
       => /\ ret'.outcome = "returned" => Strong(ret'.new_password)
          /\ ret'.error.kind = "NotStrongEnough" => users' = users]_vars

\* C29: firstTimeLogin returns only for a user whose first_time_login is
\* true, and leaves it false; the first_time_login of a user never goes
\* back to true;
\* and a call for a user whose first_time_login is false throws and leaves
\* the users as they were.  So of the calls for one user, one after the
\* other or interleaved, at most one returns.
C29_FirstTimeLoginOnce ==
    [][/\ (ret'.op = "firstTimeLogin" /\ ret'.outcome = "returned")
          => /\ users[ret'.user].first_time_login
             /\ ~users'[ret'.user].first_time_login
             /\ users'[ret'.user].encrypted_password = hashPassword(ret'.new_password)
       /\ \A id \in DOMAIN users :
             (UserExists(id) /\ ~users[id].first_time_login)
                => users'[id] = Deleted \/ ~users'[id].first_time_login
       /\ (/\ ret'.op = "firstTimeLogin"
           /\ UserExists(ret'.user)
           /\ ~users[ret'.user].first_time_login)
          => ret'.outcome = "thrown" /\ users' = users]_vars

\* of two calls that both passed the checks, the second finds no row to
\* update
C29_SecondCallRefused ==
    /\ ret.op = "firstTimeLogin" /\ ret.outcome = "thrown"
    /\ ret.error.kind = "UpdateFailed"
    /\ UserExists(ret.user) /\ ~users[ret.user].first_time_login

\* C30: in a run of createCompleteCertificate the mint request is sent only
\* after this run has written image_hash and metadata_hash to the row, and
\* the QR image is made and uploaded only after this run has written
\* transaction_hash to the row.
C30_MintAfterHashesQRAfterTransaction ==
    \A c \in {d \in {call[p] : p \in Procs} \cup {ret} : d.op = "complete"} :
        /\ c.mintSent
              => /\ {"image_hash", "metadata_hash"} \subseteq c.wrote
                 /\ certs[c.cert].image_hash # Null
                 /\ certs[c.cert].metadata_hash # Null
        /\ c.qrRequested
              => /\ c.mintSent
                 /\ "transaction_hash" \in c.wrote
                 /\ certs[c.cert].transaction_hash # Null

\* a run that has got as far as the QR image
C30_QRRequestedInComplete ==
    ret.op = "complete" /\ ret.qrRequested /\ ret.mintSent

\* C31: sendToAvalanche on a certificate that has a transaction_hash is
\* not rejected by the precondition; a call that returns has sent a mint
\* request and has written transaction_hash; and its write puts the hash of
\* its own mint answer into the row, whatever the row held.
C31_AnchoredAgain ==
    [][/\ (ret'.op = "avalanche" /\ ret'.error.kind = "Precondition")
          => Exists(ret'.cert) /\ certs[ret'.cert].transaction_hash = Null
       /\ (ret'.op = "avalanche" /\ ret'.outcome = "returned")
          => ret'.mintSent /\ "transaction_hash" \in ret'.wrote
       /\ \A p \in Procs :
             (/\ At(p, "av_save") /\ call[p].op = "avalanche"
              /\ call'[p] # call[p]
              /\ (ret'.op = "avalanche" => ret'.outcome = "returned"))
             => certs'[call[p].cert].transaction_hash = call[p].transactionHash]_vars

\* a second sendToAvalanche has replaced the transaction_hash: the row has
\* the top-level hash of the second answer beside the secondary hash of
\* the first
C31_Replaced ==
    /\ ret.op = "avalanche" /\ ret.outcome = "returned"
    /\ ret.result.transaction_hash = "0xF"
    /\ Row.transaction_hash = "0xF"
    /\ Row.arbitrum_hash = "0xB"

\* C32: a call that stands before one of its external calls has not made
\* that call yet, so each is made at most once in a call; and a call whose
\* external call has failed makes no further step but the status read of
\* createCompleteCertificate.
C32_ExternalCallsOnce ==
    \A p \in Procs :
        /\ At(p, "up_upload") => ~call[p].uploadSent
        /\ At(p, "av_mint") => ~call[p].mintSent
        /\ At(p, "qr_make") => ~call[p].qrRequested
        /\ (/\ call[p].outcome = "pending"
            /\ call[p].fault.at \in {"image upload", "metadata upload", "mint",
                                     "qr upload"})
           => call[p].op = "complete" /\ call[p].pc = "c_status"

\* createCompleteCertificate has made its three external calls and the
\* last one, the upload of the QR image, has failed
C32_QRUploadFailedInComplete ==
    \E p \in Procs :
        /\ At(p, "c_status") /\ call[p].fault.at = "qr upload"
        /\ call[p].uploadSent /\ call[p].mintSent /\ call[p].qrRequested

\* C33: in every reachable state every certificate has an image_hash
\* exactly when it has a metadata_hash.
C33_ImageHashIffMetadataHash ==
    \A id \in DOMAIN certs :
        (certs[id].image_hash # Null) <=> (certs[id].metadata_hash # Null)

\* uploadToPinata has returned on one certificate, which has both hashes,
\* beside a certificate that has neither
C33_OneRowHashedOneNot ==
    /\ ret.op = "upload" /\ ret.outcome = "returned"
    /\ Row.image_hash # Null /\ Row.metadata_hash # Null
    /\ \E id \in DOMAIN certs :
          certs[id].image_hash = Null /\ certs[id].metadata_hash = Null

\* C34: a certificate that has a transaction_hash has the image_hash and
\* the metadata_hash that were sent in the mint request that produced it:
\* the write of a transaction_hash finds in the row the hashes its call
\* has sent, and the hashes of a row that has a transaction_hash do not
\* change.
C34_AnchoredHashesAreTheSentOnes ==
    [][/\ \A p \in Procs :
             (/\ At(p, "av_save") /\ call'[p] # call[p]
              /\ "transaction_hash" \in (IF call'[p].outcome = "pending"
                                         THEN call'[p].wrote ELSE ret'.wrote))
             => /\ certs'[call[p].cert].image_hash = call[p].sentImage
                /\ certs'[call[p].cert].metadata_hash = call[p].sentMetadata
       /\ \A id \in DOMAIN certs :
             certs[id].transaction_hash # Null
             => /\ certs'[id].image_hash = certs[id].image_hash
                /\ certs'[id].metadata_hash = certs[id].metadata_hash]_vars

\* C35: a result of createCompleteCertificate with success false and
\* current_step S has a current_status in which the basic creation and
\* every stage before S are complete and S and every later stage are not.
C35_StatusMatchesFailedStep ==
    LET StageOrder == <<"Uploading to Pinata", "Sending to Avalanche",
                        "Generating QR code">>
        StageDone(status, n) == IF n = 1 THEN status.uploaded_to_pinata
                                ELSE IF n = 2 THEN status.sent_to_avalanche
                                ELSE status.qr_generated
    IN (ret.op = "complete" /\ ret.outcome = "returned" /\ ~ret.result.success)
       => /\ ret.result.current_status.basic_created
          /\ \E s \in DOMAIN StageOrder :
                /\ ret.result.current_step = StageOrder[s]
                /\ \A n \in DOMAIN StageOrder :
                      StageDone(ret.result.current_status, n) <=> n < s

C37_ValidWheneverFound ==
    ret.op = "validate"
    => /\ ret.outcome = "returned"
       /\ ret.result.validation.valid <=> ret.fault = NoFault
       /\ ret.result.validation.valid
          => /\ Exists(ret.cert)
             /\ ret.result.validation.pinata_check
                <=> (Row.image_hash # Null /\ Row.metadata_hash # Null)
             /\ ret.result.validation.avalanche_check
                <=> Row.transaction_hash # Null

\* a certificate that no stage has run on is reported valid
C37_FreshCertificateValid ==
    /\ ret.op = "validate" /\ ret.result.validation.valid
    /\ Row = Certificate
    /\ ~ret.result.validation.pinata_check
    /\ ~ret.result.validation.avalanche_check

\* ------------------------------------------------------ approveInstitution
\* an id no institution ever has
NoSuchInstitution == MaxOps + 1
InstitutionExists(id) == id \in DOMAIN institutions
InstitutionTargets == DOMAIN institutions \cup {NoSuchInstitution}

\* The callback up to the UPDATE: SELECT id, status FROM institutions WHERE
\* id = $1 and the two checks.
InstitutionRead(c, dbOk) ==
    IF ~pool THEN AccountThrow(c, "NotConnected")
    ELSE IF ~dbOk THEN AccountThrow(c, "Database")
    ELSE IF ~InstitutionExists(c.institution) THEN AccountThrow(c, "NotFound")
    ELSE IF institutions[c.institution].status # "pending"
    THEN AccountThrow(c, "BadRequest")
    ELSE [c EXCEPT !.pc = "ai_update"]

approveInstitution(p, institutionId, status, dbOk) ==
    /\ CanBegin(p)
    /\ StartOp
    /\ institutionId \in InstitutionTargets
    /\ AccountStep(p, InstitutionRead([NewAccountCall("approveInstitution", 0)
                                          EXCEPT !.institution = institutionId,
                                                 !.status = status],
                                      dbOk))
    /\ UNCHANGED <<institutions, users, outbox>>

\* the rows UPDATE institutions SET status = $1 ... WHERE id = $3 changes
InstitutionMatched(id) == InstitutionExists(id)

\* UPDATE institutions SET status ... WHERE id, and COMMIT
InstitutionUpdate(p, dbOk) ==
    /\ At(p, "ai_update")
    /\ institutions' = IF dbOk /\ InstitutionMatched(call[p].institution)
                       THEN [institutions EXCEPT
                                ![call[p].institution].status = call[p].status]
                       ELSE institutions
    /\ AccountStep(p, IF dbOk THEN AccountReturn(call[p])
                      ELSE AccountThrow(call[p], "Database"))
    /\ UNCHANGED <<budget, users, outbox>>

\* --------------------------------------------- approveInstitutionWithOwner
\* SELECT id, status FROM users WHERE institution_id = $1 AND role = 'owner'
Owners(institution) ==
    {id \in DOMAIN users : /\ UserExists(id)
                           /\ users[id].role = "owner"
                           /\ users[id].institution_id = institution}

\* the SELECT of the institution and its two checks
approveInstitutionWithOwner(p, institutionId, dbOk) ==
    /\ CanBegin(p)
    /\ StartOp
    /\ institutionId \in InstitutionTargets
    /\ LET c == InstitutionRead([NewAccountCall("approveInstitutionWithOwner", 0)
                                    EXCEPT !.institution = institutionId,
                                           !.status = "verified"],
                                dbOk)
       IN AccountStep(p, IF c.outcome = "pending" THEN [c EXCEPT !.pc = "wo_owner"]
                         ELSE c)
    /\ UNCHANGED <<institutions, users, outbox>>

\* the SELECT of the owner: ownerResult.rows[0].id, whatever its status
OwnerRead(p, dbOk) ==
    /\ At(p, "wo_owner")
    /\ LET c == call[p] IN
       AccountStep(p, IF ~dbOk THEN AccountThrow(c, "Database")
                      ELSE IF Owners(c.institution) = {} THEN AccountThrow(c, "NotFound")
                      ELSE [c EXCEPT !.pc = "wo_update",
                                     !.user = Last(Owners(c.institution))])
    /\ UNCHANGED <<budget, institutions, users, outbox>>

\* the two UPDATEs, each WHERE id = $1, and COMMIT
WithOwnerUpdate(p, dbOk) ==
    /\ At(p, "wo_update")
    /\ LET c == call[p] IN
       IF dbOk
       THEN /\ institutions' = IF InstitutionMatched(c.institution)
                               THEN [institutions EXCEPT
                                        ![c.institution].status = "verified"]
                               ELSE institutions
            /\ users' = IF UserExists(c.user)
                        THEN [users EXCEPT ![c.user].status = "verified"]
                        ELSE users
            /\ AccountStep(p, AccountReturn(c))
       ELSE /\ UNCHANGED <<institutions, users>>
            /\ AccountStep(p, AccountThrow(c, "Database"))
    /\ UNCHANGED <<budget, outbox>>

\* ------------------------------------------- the approvals, as a system
\* the registrations and the three decisions of an administrator
NextApprovals ==
    \E p \in Procs :
        \/ \E institutionOk \in BOOLEAN : createCompanyWithOwner(p, institutionOk)
        \/ \E userOk, commitOk \in BOOLEAN : InsertOwner(p, userOk, commitOk)
        \/ \E userId \in UserTargets, status \in {"verified", "rejected"},
              dbOk, sent \in BOOLEAN : approveUser(p, userId, status, dbOk, sent)
        \/ \E dbOk \in BOOLEAN : ApproveUpdate(p, dbOk)
        \/ \E dbOk \in BOOLEAN : ApproveDelete(p, dbOk)
        \/ \E institutionId \in InstitutionTargets, status \in {"verified", "rejected"},
              dbOk \in BOOLEAN : approveInstitution(p, institutionId, status, dbOk)
        \/ \E dbOk \in BOOLEAN : InstitutionUpdate(p, dbOk)
        \/ \E institutionId \in InstitutionTargets, dbOk \in BOOLEAN :
              approveInstitutionWithOwner(p, institutionId, dbOk)
        \/ \E dbOk \in BOOLEAN : OwnerRead(p, dbOk)
        \/ \E dbOk \in BOOLEAN : WithOwnerUpdate(p, dbOk)

SpecApprovals == InitAccounts /\ [][NextApprovals]_vars

\* C38: the status of an institution or of a user changes only in a step
\* of approveInstitution, approveUser or approveInstitutionWithOwner, and
\* only from 'pending': a status that has left 'pending' stays as it is
\* (and a user that is no longer pending is not deleted); and a decision
\* on an entity that is not pending throws BadRequest and leaves every row
\* as it was.  (Such a decision starts and ends in one step; a call that
\* the database has not answered is left aside.)
C38_DecidedOnce ==
    [][LET Decisions == {"approveUser", "approveInstitution",
                         "approveInstitutionWithOwner"}
       IN /\ \A id \in DOMAIN institutions :
                institutions'[id].status # institutions[id].status
                => /\ institutions[id].status = "pending"
                   /\ \E p \in Procs :
                         call[p].op \in Decisions /\ call'[p] # call[p]
          /\ \A id \in DOMAIN users :
                users'[id].status # users[id].status
                => /\ users[id].status = "pending"
                   /\ \E p \in Procs :
                         call[p].op \in Decisions /\ call'[p] # call[p]
          /\ (/\ ret'.op \in Decisions /\ budget' # budget
              /\ \A p \in Procs : call'[p] = call[p]
              /\ ret'.error.kind \notin {"Database", "NotConnected"}
              /\ IF ret'.op = "approveUser"
                 THEN UserExists(ret'.user) /\ users[ret'.user].status # "pending"
                 ELSE /\ InstitutionExists(ret'.institution)
                      /\ institutions[ret'.institution].status # "pending")
             => /\ ret'.outcome = "thrown" /\ ret'.error.kind = "BadRequest"
                /\ institutions' = institutions /\ users' = users]_vars
====
